---- MODULE Spec2Model ----
(***************************************************************************)
(* Model of koa's option manager (koa/optmanager.py) and extension manager *)
(* (koa/extmanager.py): typed options with batched updates and rollback,   *)
(* the deferred queue, and ordered event dispatch to extensions.           *)
(***************************************************************************)
EXTENDS Integers, Sequences, FiniteSets, TLC

VARIABLES options, deferred, subscriptions, attrs, lookup, regorder, seen, rereg,
          tasks, history, last

vars ==
    <<options, deferred, subscriptions, attrs, lookup, regorder, seen, rereg,
      tasks, history, last>>

\* the registry of extensions and its history
extvars == <<lookup, regorder, seen, rereg>>

\* the dispatches that are suspended or have ended, and the handlers invoked so far
asyncvars == <<tasks, history>>

(***************************************************************************)
(* Bounds of the model.                                                    *)
(***************************************************************************)
\* largest number of keyword arguments of one update call
MaxArgs == 2
\* largest number of values collected for one name by set
MaxVals == 1
\* largest number of subscriptions made
MaxSubs == 2
\* largest number of trigger coroutines started
MaxTasks == 2

(***************************************************************************)
(* Python values.  k is the class of the value, s the text of a str, n the *)
(* number of an int or a bool (True is 1, False is 0).                     *)
(***************************************************************************)
StrV(s) == [k |-> "str", s |-> s, n |-> 0]
IntV(n) == [k |-> "int", s |-> "", n |-> n]
BoolV(b) == [k |-> "bool", s |-> "", n |-> IF b THEN 1 ELSE 0]
NoneV == [k |-> "none", s |-> "", n |-> 0]

\* truth value of a Python value, as `assert x` and `if x` take it
Truthy(v) ==
    CASE v.k = "str" -> v.s # ""
      [] v.k = "int" -> v.n # 0
      [] v.k = "bool" -> v.n # 0
      [] OTHER -> FALSE

\* isinstance(value, typespec) for the plain classes; bool is a subclass of int.
\* For a parameterized generic (Sequence[str], Tuple[...], whose origin is the class
\* tuple and not typing.Tuple) isinstance itself raises TypeError: the check fails.
IsInstance(v, t) ==
    CASE t = "str" -> v.k = "str"
      [] t = "int" -> v.k \in {"int", "bool"}
      [] t = "bool" -> v.k = "bool"
      [] t = "float" -> v.k = "float"
      [] t = "none" -> v.k = "none"
      [] OTHER -> FALSE

\* the members of a Union typespec; Optional[T] is Union[T, None]
UnionArgs(t) ==
    CASE t = "optstr" -> {"str", "none"}
      [] t = "optint" -> {"int", "none"}
      [] OTHER -> {}

\* _Option.assert_type on a plain class: TRUE when it returns, FALSE when it raises TypeError
assert_plain(v, t) ==
    IF t = "any" THEN TRUE
    ELSE IF ~IsInstance(v, t)
         THEN t = "float" /\ IsInstance(v, "int")
         ELSE TRUE

\* a type check that accepts every value
assert_type_accepts_all(v, t) == TRUE

\* _Option.assert_type: TRUE when it returns, FALSE when it raises TypeError
assert_type(v, t) ==
    IF UnionArgs(t) # {}
    THEN \E u \in UnionArgs(t) : assert_plain(v, u)
    ELSE assert_plain(v, t)

(***************************************************************************)
(* _Option                                                                 *)
(***************************************************************************)
\* _Option.__init__ after its type check: the value is the default, not set
new_Option(t, d) == [typespec |-> t, default |-> d, value |-> d, is_set |-> FALSE]

\* the value setter after its type check
set_value(o, v) == [o EXCEPT !.value = v, !.is_set = TRUE]

\* _Option.reset: the flag is cleared, then the value setter stores the default (which
\* passed the type check when the option was made) and sets the flag
reset(o) == set_value([o EXCEPT !.is_set = FALSE], o.default)

\* _Option.__deepcopy__: a new option from the default, the value written when set
deepcopy_Option(o) ==
    IF o.is_set THEN set_value(new_Option(o.typespec, o.default), o.value)
    ELSE new_Option(o.typespec, o.default)

\* copy.deepcopy(self._options)
deepcopy_options(opts) == [n \in DOMAIN opts |-> deepcopy_Option(opts[n])]

\* OptManager.default(option) of a registered option
default(opts, n) == opts[n].default

\* OptManager.is_set(option) of a registered option: what the method returns
is_set(opts, n) == opts[n].default

\* OptManager.__getattr__ of a registered option: the current value
getattr(opts, n) == opts[n].value

(***************************************************************************)
(* Event dispatch (ExtManager)                                             *)
(***************************************************************************)
\* what the attribute of an extension named like the event does when looked up and called
\* ("awaitable": an async def handler, whose call returns a coroutine that returns when
\* run; "declares": a configure handler that registers the option HandlerOption with
\* options.add_option when the manager does not have it, and returns)
Outcomes ==
    {"absent", "noncallable", "ok", "awaitable", "declares", "Exception", "ExtensionHalt",
     "OptionError"}

\* the option a configure handler registers
HandlerOption == "p.h"

Event(name, updated) == [name |-> name, updated |-> updated]

\* invoke_extension_sync: whether the handler is called, whether what it computes has run
\* to its end when invoke_extension_sync returns, and what is raised.  The result of
\* func(*event.args()) is dropped: a coroutine it returns is never run.
invoke_extension_sync(out) ==
    CASE out = "absent" -> [invoked |-> FALSE, ran |-> FALSE, exc |-> "none"]
      [] out = "noncallable" -> [invoked |-> FALSE, ran |-> FALSE, exc |-> "ExtManagerError"]
      [] out = "ok" -> [invoked |-> TRUE, ran |-> TRUE, exc |-> "none"]
      [] out = "awaitable" -> [invoked |-> TRUE, ran |-> FALSE, exc |-> "none"]
      [] out = "declares" -> [invoked |-> TRUE, ran |-> TRUE, exc |-> "none"]
      [] OTHER -> [invoked |-> TRUE, ran |-> TRUE, exc |-> out]

\* invoke_extension, awaited to its end: `await res` runs the awaitable the handler returns
invoke_extension(out) ==
    IF out = "awaitable" THEN [invoked |-> TRUE, ran |-> TRUE, exc |-> "none"]
    ELSE invoke_extension_sync(out)

\* the call made by trigger_sync (sync) or by trigger
invoke(out, sync) == IF sync THEN invoke_extension_sync(out) ELSE invoke_extension(out)

\* a safecall that catches nothing
safecall_catches_nothing(exc) == exc

\* safecall: the exception that leaves the with block, given the one raised inside
safecall(exc) == IF exc = "OptionError" THEN "OptionError" ELSE "none"

\* the handler calls and the logged exceptions of one extension, before those of the rest
prepend(me, lg, rest) == [rest EXCEPT !.calls = me \o @, !.logged = lg \o @]

\* the loop of trigger_sync (sync) / trigger from the i-th registered extension on
RECURSIVE trigger_from(_, _, _, _, _)
trigger_from(lk, ev, beh, i, sync) ==
    IF i > Len(lk) THEN [calls |-> <<>>, exc |-> "none", logged |-> <<>>]
    ELSE LET e == lk[i]
             r == invoke(beh[e], sync)
             x == safecall(r.exc)
             me == IF r.invoked
                   THEN <<[ext |-> e, ev |-> ev, out |-> beh[e], ran |-> r.ran]>>
                   ELSE <<>>
             lg == IF r.exc # "none" /\ x = "none" THEN <<[ext |-> e, exc |-> r.exc]>> ELSE <<>>
         IN  IF x = "ExtensionHalt" THEN [calls |-> me, exc |-> "none", logged |-> lg]
             ELSE IF x # "none" THEN [calls |-> me, exc |-> x, logged |-> lg]
             ELSE prepend(me, lg, trigger_from(lk, ev, beh, i + 1, sync))

trigger_sync(lk, ev, beh) == trigger_from(lk, ev, beh, 1, TRUE)

\* trigger awaited to its end by its caller, no other coroutine running meanwhile
trigger(lk, ev, beh) == trigger_from(lk, ev, beh, 1, FALSE)

\* a receiver that passes the event to the first extension only
configure_all_first_only(lk, updated, beh) ==
    trigger_sync(SelectSeq(lk, LAMBDA e : e = lk[1]), Event("configure", updated), beh)

\* ExtManager._configure_all, the receiver of options.changed
configure_all(lk, updated, beh) == trigger_sync(lk, Event("configure", updated), beh)

(***************************************************************************)
(* OptManager: registration and batched updates                            *)
(***************************************************************************)
\* the result of an operation that wrote no option and called no handler
Quiet(opts) ==
    [options |-> opts, exc |-> "none", calls |-> <<>>, logged |-> <<>>,
     sent |-> <<>>, errored |-> 0, unknown |-> <<>>]

Raise(opts, exc) == [Quiet(opts) EXCEPT !.exc = exc]

\* the result b of a step that ran after the step with result a
after(a, b) ==
    [b EXCEPT !.calls = a.calls \o @, !.logged = a.logged \o @, !.sent = a.sent \o @,
              !.errored = a.errored + @]

\* self.changed.send(updated), whose receiver ran with result c
changed_send(r, updated, c) ==
    [r EXCEPT !.options = c.options, !.exc = c.exc, !.calls = @ \o c.calls,
              !.logged = @ \o c.logged,
              !.sent = Append(@, [updated |-> updated, options |-> r.options]) \o c.sent]

\* the calls of a notification in which a handler registers HandlerOption
Declaring(c) == {i \in DOMAIN c.calls : c.calls[i].out = "declares"}

\* the i-th call of the notification c registers HandlerOption: add_option stores it and
\* sends options.changed for it, which every registered handler receives and returns from,
\* before the handlers after the i-th are called
handled_at(opts, lk, c, i, nested) ==
    [calls |-> SubSeq(c.calls, 1, i) \o nested.calls \o SubSeq(c.calls, i + 1, Len(c.calls)),
     exc |-> c.exc,
     logged |-> c.logged,
     options |-> opts,
     sent |-> <<[updated |-> {HandlerOption}, options |-> opts]>>]

\* the notification c as its receivers leave the options opts: the first handler that
\* finds HandlerOption missing registers it
handled(opts, lk, c) ==
    IF Declaring(c) = {} \/ HandlerOption \in DOMAIN opts
    THEN [calls |-> c.calls, exc |-> c.exc, logged |-> c.logged, options |-> opts,
          sent |-> <<>>]
    ELSE handled_at([m \in DOMAIN opts \cup {HandlerOption} |->
                        IF m = HandlerOption THEN new_Option("int", IntV(0)) ELSE opts[m]],
                    lk, c, CHOOSE i \in Declaring(c) : \A j \in Declaring(c) : i <= j,
                    configure_all(lk, {HandlerOption}, [e \in {lk[k] : k \in DOMAIN lk} |-> "ok"]))

\* a registration that keeps the option a present name has
store_option_once(opts, n, t, d) ==
    [m \in DOMAIN opts \cup {n} |->
        IF m = n /\ n \notin DOMAIN opts THEN new_Option(t, d) ELSE opts[m]]

\* self._options[name] = _Option(...): a present name is replaced
store_option(opts, n, t, d) ==
    [m \in DOMAIN opts \cup {n} |-> IF m = n THEN new_Option(t, d) ELSE opts[m]]

\* OptManager.add_option: register (or replace) the option, then send options.changed
add_option(opts, lk, n, t, d, beh) ==
    IF ~assert_type(d, t) THEN Raise(opts, "TypeError")
    ELSE changed_send(Quiet(store_option(opts, n, t, d)), {n},
                      handled(store_option(opts, n, t, d), lk, configure_all(lk, {n}, beh)))

\* the for loop of update_known: self._options[option].value = value, in argument order
RECURSIVE assign_from(_, _, _)
assign_from(opts, known, i) ==
    IF i > Len(known) THEN [options |-> opts, exc |-> "none"]
    ELSE IF assert_type(known[i].value, opts[known[i].name].typespec)
         THEN assign_from([opts EXCEPT ![known[i].name] = set_value(@, known[i].value)],
                          known, i + 1)
         ELSE [options |-> opts, exc |-> "TypeError"]

\* the body of the with block of update_known: the assignments, then changed.send
update_body(asg, lk, updated, beh) ==
    IF asg.exc # "none" THEN Raise(asg.options, asg.exc)
    ELSE changed_send(Quiet(asg.options), updated,
                      handled(asg.options, lk, configure_all(lk, updated, beh)))

\* the exceptions the except clause of rollback catches
rollback_catches(exc) == exc = "OptionError"

\* an except clause that does not restore the options
rollback_handler_keeps(old, body, updated, c, reraise) ==
    [body EXCEPT !.errored = @ + 1,
                 !.calls = @ \o c.calls,
                 !.logged = @ \o c.logged,
                 !.sent = Append(@, [updated |-> updated, options |-> body.options]) \o c.sent,
                 !.exc = IF c.exc # "none" THEN c.exc
                         ELSE IF reraise THEN body.exc ELSE "none"]

\* the except clause of rollback: errored.send, self._options = old, changed.send (whose
\* receivers ran with result c upon the restored options), re-raise
rollback_handler(old, body, updated, c, reraise) ==
    [body EXCEPT !.options = c.options,
                 !.errored = @ + 1,
                 !.calls = @ \o c.calls,
                 !.logged = @ \o c.logged,
                 !.sent = Append(@, [updated |-> updated, options |-> old]) \o c.sent,
                 !.exc = IF c.exc # "none" THEN c.exc
                         ELSE IF reraise THEN body.exc ELSE "none"]

\* OptManager.rollback around a body that left the options as body.options and raised body.exc
rollback(old, body, lk, updated, beh2, reraise) ==
    IF rollback_catches(body.exc)
    THEN rollback_handler(old, body, updated,
                          handled(old, lk, configure_all(lk, updated, beh2)), reraise)
    ELSE body

\* return unknown
return_unknown(r, unknown) == IF r.exc # "none" THEN r ELSE [r EXCEPT !.unknown = unknown]

KwNamesOf(kw) == {kw[i].name : i \in DOMAIN kw}

\* OptManager.update_known
update_known(opts, lk, kw, beh, beh2) ==
    LET known == SelectSeq(kw, LAMBDA a : a.name \in DOMAIN opts)
        unknown == SelectSeq(kw, LAMBDA a : a.name \notin DOMAIN opts)
    IN  IF known = <<>> THEN return_unknown(Quiet(opts), unknown)
        ELSE return_unknown(
                 rollback(deepcopy_options(opts),
                          update_body(assign_from(opts, known, 1), lk, KwNamesOf(known), beh),
                          lk, KwNamesOf(known), beh2, TRUE),
                 unknown)

\* the if of update: raise OptionError when update_known returned unknown names
raise_unknown(r) ==
    IF r.exc = "none" /\ r.unknown # <<>> THEN [r EXCEPT !.exc = "OptionError"] ELSE r

\* OptManager.update
update(opts, lk, kw, beh, beh2) == raise_unknown(update_known(opts, lk, kw, beh, beh2))

(***************************************************************************)
(* OptManager: subscriptions                                               *)
(***************************************************************************)
\* an argument of subscribe: "stem*" (option.endswith("*"), option[:-1]) or a literal name
Wildcard(stem) == [wild |-> TRUE, stem |-> stem]
Literal(n) == [wild |-> FALSE, stem |-> n]

\* o.startswith(p) among the strings of the model
Prefixes ==
    ("p.a" :> {"", "p", "p.", "p.a"}) @@ ("p.b" :> {"", "p", "p.", "p.b"})
    @@ ("p.h" :> {"", "p", "p.", "p.h"})
startswith(o, p) == o \in DOMAIN Prefixes /\ p \in Prefixes[o]

\* [o for o in self._options if o.startswith(option[:-1])]
matched(opts, stem) == {o \in DOMAIN opts : startswith(o, stem)}

\* f"{self._prefix}.{attr}"
qualified(prefix, attr) == prefix \o "." \o attr

\* OptManager.__getattr__(attr) of a name that is no option: the options of the view
\* OptNamespace(attr, self, namespace) it returns; with none it raises OptionError
namespace(opts, attr) == {o \in DOMAIN opts : startswith(o, attr \o ".")}

\* OptNamespace.__setattr__ of a constructed view: setattr(self._manager, name, value).
\* OptManager defines no __setattr__, so the assignment binds the instance attribute of
\* that name in the __dict__ of the manager; at is that part of the __dict__
namespace_setattr(at, prefix, attr, v) ==
    [n \in DOMAIN at \cup {qualified(prefix, attr)} |->
        IF n = qualified(prefix, attr) THEN v ELSE at[n]]

\* the names the i-th argument adds before those of the later arguments
subscribed_more(found, rest) ==
    IF found = {} THEN [exc |-> "OptionError", options |-> {}]
    ELSE IF rest.exc # "none" THEN rest
    ELSE [exc |-> "none", options |-> found \cup rest.options]

\* the for loop of subscribe from its i-th argument on
RECURSIVE subscribed_from(_, _, _)
subscribed_from(opts, names, i) ==
    IF i > Len(names) THEN [exc |-> "none", options |-> {}]
    ELSE subscribed_more(IF names[i].wild THEN matched(opts, names[i].stem)
                         ELSE {names[i].stem} \cap DOMAIN opts,
                         subscribed_from(opts, names, i + 1))

\* a subscription appended with the names found, whether or not the loop raised
subscriptions_append_always(subs, cb, so) ==
    [exc |-> so.exc, subscriptions |-> Append(subs, [cb |-> cb, options |-> so.options])]

\* self._subscriptions.append((func_weakref(), subscribed_options)), reached when the
\* loop did not raise
subscriptions_append(subs, cb, so) ==
    IF so.exc # "none" THEN [exc |-> so.exc, subscriptions |-> subs]
    ELSE [exc |-> "none",
          subscriptions |-> Append(subs, [cb |-> cb, options |-> so.options])]

\* OptManager.subscribe
subscribe(opts, subs, cb, names) ==
    subscriptions_append(subs, cb, subscribed_from(opts, names, 1))

(***************************************************************************)
(* OptManager: set specifications and the deferred queue                   *)
(***************************************************************************)
\* int(value_str): the decimal literals among the strings of the model
IntLiterals == ("0" :> 0) @@ ("1" :> 1) @@ ("7" :> 7)

\* a parser that takes every value of a boolean option but "false" as true
parse_setval_lenient(t, values) ==
    IF t = "bool"
    THEN [exc |-> "none", value |-> BoolV(values = <<>> \/ values[1] # "false")]
    ELSE [exc |-> "NotImplementedError", value |-> NoneV]

\* OptManager._parse_setval for an option of type t and the collected values
parse_setval(t, values) ==
    LET none == values = <<>>
        value_str == IF none THEN "" ELSE values[1]
        falsy == none \/ value_str = ""
        ok(v) == [exc |-> "none", value |-> v]
        err(x) == [exc |-> x, value |-> NoneV]
    IN  IF t = "seqstr" THEN ok([k |-> "list", s |-> "", n |-> Len(values)])
        ELSE IF Len(values) > 1 THEN err("OptionError")
        ELSE IF t \in {"str", "optstr"}
             THEN IF t = "str" /\ none THEN err("OptionError")
                  ELSE IF none THEN ok(NoneV) ELSE ok(StrV(value_str))
        ELSE IF t \in {"int", "optint"}
             THEN IF ~falsy
                  THEN IF value_str \in DOMAIN IntLiterals
                       THEN ok(IntV(IntLiterals[value_str]))
                       ELSE err("OptionError")
                  ELSE IF t = "int" THEN err("OptionError") ELSE ok(NoneV)
        ELSE IF t = "bool"
             THEN IF falsy \/ value_str = "true" THEN ok(BoolV(TRUE))
                  ELSE IF value_str = "false" THEN ok(BoolV(FALSE))
                  ELSE err("OptionError")
        ELSE err("NotImplementedError")

\* entries of the deferred queue: a raw _OptionSpec or a value
SpecEntry(values) == [spec |-> TRUE, values |-> values, value |-> NoneV]
ValueEntry(v) == [spec |-> FALSE, values |-> <<>>, value |-> v]

\* the keys of an ordered dict, kept as a sequence of records with a name
Names(d) == {d[i].name : i \in DOMAIN d}
Index(d, n) == CHOOSE i \in DOMAIN d : d[i].name = n

\* dict.update(items): a present key keeps its place, a new key goes last
RECURSIVE dict_update(_, _)
dict_update(d, items) ==
    IF items = <<>> THEN d
    ELSE dict_update(IF Head(items).name \in Names(d)
                     THEN [d EXCEPT ![Index(d, Head(items).name)] = Head(items)]
                     ELSE Append(d, Head(items)),
                     Tail(items))

\* what an operation on the queue leaves: its result, the queue, the values it handed on
Left(r, dfr, kw) == [r |-> r, deferred |-> dfr, kw |-> kw]

\* self.deferred.update(unknown) of update_deferred
defer_unknown(r, dfr) ==
    Left(r,
         IF r.exc # "none" THEN dfr
         ELSE dict_update(dfr, [i \in DOMAIN r.unknown |->
                  [name |-> r.unknown[i].name, entry |-> ValueEntry(r.unknown[i].value)]]),
         <<>>)

\* OptManager.update_deferred
update_deferred(opts, dfr, lk, kw, beh, beh2) ==
    defer_unknown(update_known(opts, lk, kw, beh, beh2), dfr)

\* the first loop of set: a token is [name, eq, value]; values are grouped by name
RECURSIVE group_specs(_, _)
group_specs(un, specs) ==
    IF specs = <<>> THEN un
    ELSE LET sp == Head(specs)
             add == IF sp.eq THEN <<sp.value>> ELSE <<>>
         IN  group_specs(IF sp.name \in Names(un)
                         THEN [un EXCEPT ![Index(un, sp.name)].values = @ \o add]
                         ELSE Append(un, [name |-> sp.name, values |-> add]),
                         Tail(specs))

\* a parsed value before the parsed values of the later names; the first failure is raised
cons_kw(n, p, rest) ==
    IF p.exc # "none" THEN [exc |-> p.exc, kw |-> <<>>]
    ELSE [exc |-> rest.exc, kw |-> <<[name |-> n, value |-> p.value]>> \o rest.kw]

\* the second loop of set: parse the values of the registered names, in order
RECURSIVE parse_known(_, _, _)
parse_known(opts, un, i) ==
    IF i > Len(un) THEN [exc |-> "none", kw |-> <<>>]
    ELSE IF un[i].name \notin DOMAIN opts THEN parse_known(opts, un, i + 1)
    ELSE cons_kw(un[i].name, parse_setval(opts[un[i].name].typespec, un[i].values),
                 parse_known(opts, un, i + 1))

\* the end of set: defer or reject the unregistered names, then update(**processed)
set_apply(opts, dfr, lk, pk, unprocessed, defer, beh, beh2) ==
    IF pk.exc # "none" THEN Left(Raise(opts, pk.exc), dfr, <<>>)
    ELSE IF ~defer /\ unprocessed # <<>> THEN Left(Raise(opts, "OptionError"), dfr, pk.kw)
    ELSE Left(update(opts, lk, pk.kw, beh, beh2),
              IF defer
              THEN dict_update(dfr, [i \in DOMAIN unprocessed |->
                       [name |-> unprocessed[i].name,
                        entry |-> SpecEntry(unprocessed[i].values)]])
              ELSE dfr,
              pk.kw)

set_grouped(opts, dfr, lk, un, defer, beh, beh2) ==
    set_apply(opts, dfr, lk, parse_known(opts, un, 1),
              SelectSeq(un, LAMBDA u : u.name \notin DOMAIN opts), defer, beh, beh2)

\* OptManager.set
set(opts, dfr, lk, specs, defer, beh, beh2) ==
    set_grouped(opts, dfr, lk, group_specs(<<>>, specs), defer, beh, beh2)

\* the value of a deferred entry for an option of type t
resolve(en, t) ==
    IF en.spec THEN parse_setval(t, en.values) ELSE [exc |-> "none", value |-> en.value]

\* the loop of process_deferred: resolve the entries whose name is registered, in queue order
RECURSIVE resolve_from(_, _, _)
resolve_from(opts, dfr, i) ==
    IF i > Len(dfr) THEN [exc |-> "none", kw |-> <<>>]
    ELSE IF dfr[i].name \notin DOMAIN opts THEN resolve_from(opts, dfr, i + 1)
    ELSE cons_kw(dfr[i].name, resolve(dfr[i].entry, opts[dfr[i].name].typespec),
                 resolve_from(opts, dfr, i + 1))

\* a queue from which no key is deleted
delete_keys_none(dfr, keys) == dfr

\* for key in update: del self.deferred[key]
delete_keys(dfr, keys) == SelectSeq(dfr, LAMBDA it : it.name \notin keys)

\* the end of process_deferred, after self.update(**update) with result r
delete_applied(r, dfr, kw) ==
    Left(r, IF r.exc # "none" THEN dfr ELSE delete_keys(dfr, KwNamesOf(kw)), kw)

process_resolved(opts, dfr, lk, rs, beh, beh2) ==
    IF rs.exc # "none" THEN Left(Raise(opts, rs.exc), dfr, <<>>)
    ELSE delete_applied(update(opts, lk, rs.kw, beh, beh2), dfr, rs.kw)

\* OptManager.process_deferred
process_deferred(opts, dfr, lk, beh, beh2) ==
    process_resolved(opts, dfr, lk, resolve_from(opts, dfr, 1), beh, beh2)

(***************************************************************************)
(* ExtManager: registration and removal                                    *)
(***************************************************************************)
Range(q) == {q[i] : i \in DOMAIN q}

\* del self.lookup[name]
del_lookup(lk, e) == SelectSeq(lk, LAMBDA x : x # e)

\* a handler invoked outside safecall with result r: its call and its exception
called(e, name, out, r) ==
    [exc |-> r.exc,
     invoked |-> r.invoked,
     calls |-> IF r.invoked
               THEN <<[ext |-> e, ev |-> Event(name, {}), out |-> out, ran |-> r.ran]>>
               ELSE <<>>]

\* a hook called by invoke_extension_sync outside safecall (load, ready)
hook(e, name, out) == called(e, name, out, invoke_extension_sync(out))

\* the calls of loader.add_option made by a load hook, in order, up to the first that raises
RECURSIVE declare_from(_, _, _, _, _)
declare_next(a, lk, decls, i, beh) ==
    IF a.exc # "none" THEN a ELSE after(a, declare_from(a.options, lk, decls, i + 1, beh))

declare_from(opts, lk, decls, i, beh) ==
    IF i > Len(decls) THEN Quiet(opts)
    ELSE declare_next(add_option(opts, lk, decls[i].name, decls[i].typespec,
                                 decls[i].default, beh),
                      lk, decls, i, beh)

\* the load hook h declared its options with result dc and then returned or raised
loaded(h, dc) ==
    [dc EXCEPT !.calls = h.calls \o @, !.exc = IF @ # "none" THEN @ ELSE h.exc]

\* self.invoke_extension_sync(ext, LoadEvent(loader))
load_hook(opts, lk, load, h, beh) ==
    IF ~h.invoked THEN Raise(opts, h.exc)
    ELSE loaded(h, declare_from(opts, lk, load.decls, 1, beh))

\* what register leaves: its result, the deferred queue and the registry
Registered(r, dfr, lk) == [r |-> r, deferred |-> dfr, lookup |-> lk]

\* self.invoke_extension_sync(ext, events.ReadyEvent(self.bot.options))
register_ready(r, dfr, lk1, rd) ==
    Registered([r EXCEPT !.calls = @ \o rd.calls, !.exc = rd.exc], dfr, lk1)

\* a registration that calls the ready hook without the result of process_deferred
register_processed_unapplied(e, lk1, ld, pd, ready) ==
    register_ready(ld, pd.deferred, lk1, hook(e, "ready", ready))

\* a registration that calls the ready hook before the deferred values are applied
register_processed_ready_first(e, lk1, ld, pd, ready) ==
    Registered(after(register_ready(ld, pd.deferred, lk1, hook(e, "ready", ready)).r, pd.r),
               pd.deferred, lk1)

\* self.bot.options.process_deferred(), with result pd, then the ready hook
register_processed(e, lk1, ld, pd, ready) ==
    IF pd.r.exc # "none" THEN Registered(after(ld, pd.r), pd.deferred, lk1)
    ELSE register_ready(after(ld, pd.r), pd.deferred, lk1, hook(e, "ready", ready))

\* a registration that puts the extension first in the registry
register_loaded_first(e, dfr, lk, ld, ready, beh, beh2) ==
    IF ld.exc # "none" THEN Registered(ld, dfr, lk)
    ELSE register_processed(e, <<e>> \o lk, ld,
                            process_deferred(ld.options, dfr, <<e>> \o lk, beh, beh2),
                            ready)

\* self.lookup[name] = ext, after the load hook with result ld
register_loaded(e, dfr, lk, ld, ready, beh, beh2) ==
    IF ld.exc # "none" THEN Registered(ld, dfr, lk)
    ELSE register_processed(e, Append(lk, e), ld,
                            process_deferred(ld.options, dfr, Append(lk, e), beh, beh2),
                            ready)

\* a registration that does not look for the name in the registry
register_unchecked(opts, dfr, lk, e, load, ready, beh, beh2) ==
    register_loaded(e, dfr, del_lookup(lk, e),
                    load_hook(opts, lk, load, hook(e, "load", load.out), beh),
                    ready, beh, beh2)

\* ExtManager.register: load hook, lookup[name] = ext, process_deferred, ready hook
register(opts, dfr, lk, e, load, ready, beh, beh2) ==
    IF e \in Range(lk) THEN Registered(Raise(opts, "ExtManagerError"), dfr, lk)
    ELSE register_loaded(e, dfr, lk,
                         load_hook(opts, lk, load, hook(e, "load", load.out), beh),
                         ready, beh, beh2)

\* ExtManager.remove: del lookup[name], then the done handler of ext, outside safecall;
\* registry is self.lookup as it is when the done handler is invoked
remove(lk, e, done) ==
    IF e \notin Range(lk)
    THEN [lookup |-> lk, registry |-> lk, exc |-> "ExtManagerError",
          calls |-> <<>>, logged |-> <<>>]
    ELSE [lookup |-> del_lookup(lk, e), registry |-> del_lookup(lk, e),
          exc |-> called(e, "done", done, invoke_extension(done)).exc,
          calls |-> called(e, "done", done, invoke_extension(done)).calls, logged |-> <<>>]

\* a clear that leaves the registry as it is
cleared_keeps(lk, t) == [lookup |-> lk, exc |-> t.exc, calls |-> t.calls, logged |-> t.logged]

\* self.lookup = {} once trigger(DoneEvent()) has returned
cleared(lk, t) ==
    [lookup |-> IF t.exc = "none" THEN <<>> ELSE lk, exc |-> t.exc,
     calls |-> t.calls, logged |-> t.logged]

\* ExtManager.clear
clear(lk, beh) == cleared(lk, trigger(lk, Event("done", {}), beh))

(***************************************************************************)
(* ExtManager: trigger coroutines that suspend in the handlers they await  *)
(***************************************************************************)
\* One coroutine of trigger runs from one suspension to the next without any other
\* coroutine running.  susp tells which handlers (async def functions) suspend when they
\* are awaited in this stretch; the others run to their end.  From the i-th value of the
\* dictionary d on: the handlers invoked, and where the coroutine is suspended or ended
RECURSIVE run_from(_, _, _, _, _)
run_from(d, id, ev, i, susp) ==
    IF i > Len(d) THEN [invoked |-> <<>>, pos |-> i, state |-> "ended"]
    ELSE IF susp[d[i]]
         THEN [invoked |-> <<[task |-> id, ext |-> d[i], ev |-> ev]>>, pos |-> i,
               state |-> "awaiting"]
         ELSE [run_from(d, id, ev, i + 1, susp)
                 EXCEPT !.invoked = <<[task |-> id, ext |-> d[i], ev |-> ev]>> \o @]

\* the dictionary a trigger coroutine iterates: self.lookup as long as clear has not bound
\* self.lookup to a new dictionary, else the dictionary that was self.lookup
iterated(t, lk) == IF t.bound THEN lk ELSE t.dict

\* a coroutine of trigger(ev) begins: `for ext in self.lookup.values()`
started(lk, id, ev, susp) ==
    [task |-> [ev |-> ev, bound |-> TRUE, dict |-> <<>>, len0 |-> Len(lk),
               pos |-> run_from(lk, id, ev, 1, susp).pos,
               state |-> run_from(lk, id, ev, 1, susp).state],
     invoked |-> run_from(lk, id, ev, 1, susp).invoked]

\* the handler a coroutine awaits returns and the loop asks the iterator for the next
\* value: a dictionary whose size changed since the loop began raises RuntimeError
\* ("dictionary changed size during iteration"), which ends the coroutine
resumed(t, lk, id, susp) ==
    IF Len(iterated(t, lk)) # t.len0
    THEN [task |-> [t EXCEPT !.state = "RuntimeError"], invoked |-> <<>>]
    ELSE [task |-> [t EXCEPT !.pos = run_from(iterated(t, lk), id, t.ev, t.pos + 1, susp).pos,
                             !.state = run_from(iterated(t, lk), id, t.ev, t.pos + 1, susp).state],
          invoked |-> run_from(iterated(t, lk), id, t.ev, t.pos + 1, susp).invoked]

\* self.lookup = {} of clear: the coroutines that iterate the old dictionary keep it
unbound(ts, lk) ==
    [i \in DOMAIN ts |-> IF ts[i].bound THEN [ts[i] EXCEPT !.bound = FALSE, !.dict = lk]
                         ELSE ts[i]]

\* the done handlers (plain functions that return) invoked by clear or by remove
done_invoked(lk) == [i \in DOMAIN lk |-> [task |-> 0, ext |-> lk[i], ev |-> "done"]]

\* no suspended coroutine iterates self.lookup after an insertion or a deletion
Unchanged(ts, lk) ==
    \A i \in DOMAIN ts : (ts[i].bound /\ ts[i].state = "awaiting") => ts[i].len0 = Len(lk)

(***************************************************************************)
(* State and operations                                                    *)
(***************************************************************************)
\* the record of the last operation: its name and arguments, the exception it raised,
\* the handlers it called, the exceptions safecall logged, the options.changed
\* notifications it sent (each with the options its receivers could read) and the number
\* of options.errored notifications it sent; for add_option, whether the name was
\* registered before the call; for remove, the registry as the done handler finds it
Blank ==
    [op |-> "init", ext |-> "", kw |-> <<>>, specs |-> <<>>, exc |-> "none",
     calls |-> <<>>, logged |-> <<>>, sent |-> <<>>, errored |-> 0, unknown |-> <<>>,
     beh |-> <<>>, replaced |-> FALSE, registry |-> <<>>]

Done(op, kw, r) ==
    [Blank EXCEPT !.op = op, !.kw = kw, !.exc = r.exc, !.calls = r.calls,
                  !.logged = r.logged, !.sent = r.sent, !.errored = r.errored,
                  !.unknown = r.unknown]

Init ==
    /\ options = << >>
    /\ deferred = << >>
    /\ subscriptions = << >>
    /\ attrs = << >>
    /\ lookup = << >>
    /\ regorder = << >>
    /\ seen = {}
    /\ rereg = {}
    /\ tasks = << >>
    /\ history = << >>
    /\ last = Blank

\* an operation on the options alone ended with result r
OptionsOp(op, kw, r) ==
    /\ options' = r.options
    /\ last' = Done(op, kw, r)
    /\ UNCHANGED <<subscriptions, attrs, asyncvars>>

\* an operation on the options and the deferred queue ended leaving u
QueueOp(op, specs, u) ==
    /\ options' = u.r.options
    /\ deferred' = u.deferred
    /\ last' = [Done(op, u.kw, u.r) EXCEPT !.specs = specs]
    /\ UNCHANGED <<subscriptions, attrs, asyncvars>>

\* add_option ended with result r
AddOptionOp(n, d, r) ==
    /\ options' = r.options
    /\ last' = [Done("add_option", <<[name |-> n, value |-> d]>>, r)
                  EXCEPT !.replaced = n \in DOMAIN options]
    /\ UNCHANGED <<subscriptions, attrs, asyncvars>>

AddOption(n, t, d, beh) ==
    /\ AddOptionOp(n, d, add_option(options, lookup, n, t, d, beh))
    /\ UNCHANGED <<deferred, extvars>>

\* subscribe: last.ext holds the callback, last.specs the names it is subscribed to
Subscribe(cb, names) ==
    /\ Len(subscriptions) < MaxSubs
    /\ subscriptions' = subscribe(options, subscriptions, cb, names).subscriptions
    /\ last' = [Blank EXCEPT !.op = "subscribe", !.ext = cb, !.specs = names,
                             !.exc = subscribe(options, subscriptions, cb, names).exc]
    /\ UNCHANGED <<options, deferred, attrs, extvars, asyncvars>>

UpdateKnown(kw, beh, beh2) ==
    /\ OptionsOp("update_known", kw, update_known(options, lookup, kw, beh, beh2))
    /\ UNCHANGED <<deferred, extvars>>

Update(kw, beh, beh2) ==
    /\ OptionsOp("update", kw, update(options, lookup, kw, beh, beh2))
    /\ UNCHANGED <<deferred, extvars>>

\* update_deferred: last.specs holds the keyword arguments
UpdateDeferred(kw, beh, beh2) ==
    /\ QueueOp("update_deferred", kw,
               update_deferred(options, deferred, lookup, kw, beh, beh2))
    /\ UNCHANGED extvars

\* set: last.specs holds the tokens, last.kw the parsed values handed to update
Set(specs, defer, beh, beh2) ==
    /\ QueueOp(IF defer THEN "set_defer" ELSE "set", specs,
               set(options, deferred, lookup, specs, defer, beh, beh2))
    /\ UNCHANGED extvars

\* process_deferred: last.kw holds the resolved values handed to update
ProcessDeferred(beh, beh2) ==
    /\ QueueOp("process_deferred", <<>>,
               process_deferred(options, deferred, lookup, beh, beh2))
    /\ UNCHANGED extvars

\* regorder, seen and rereg are the history of the registry: the extensions now
\* registered in the order in which their registrations happened, the extensions that
\* were ever registered, and the registered extensions that had been registered and
\* removed before.
RegistryOp(lk1) ==
    /\ lookup' = lk1
    /\ regorder' = SelectSeq(regorder, LAMBDA x : x \in Range(lk1))
                   \o SelectSeq(lk1, LAMBDA x : x \notin Range(lookup))
    /\ seen' = seen \cup Range(lk1)
    /\ rereg' = (rereg \cap Range(lk1)) \cup ((Range(lk1) \ Range(lookup)) \cap seen)

\* register ended leaving u; last.kw holds the options the load hook declares
RegisterOp(e, load, u) ==
    /\ options' = u.r.options
    /\ deferred' = u.deferred
    /\ last' = [Done("register", load.decls, u.r) EXCEPT !.ext = e]
    /\ UNCHANGED <<subscriptions, attrs, asyncvars>>

Register(e, load, ready, beh, beh2) ==
    /\ RegisterOp(e, load, register(options, deferred, lookup, e, load, ready, beh, beh2))
    /\ RegistryOp(register(options, deferred, lookup, e, load, ready, beh, beh2).lookup)

DispatchOp(op, e, beh, u) ==
    /\ last' = [Blank EXCEPT !.op = op, !.ext = e, !.exc = u.exc, !.calls = u.calls,
                             !.logged = u.logged, !.beh = beh]
    /\ UNCHANGED <<options, deferred, subscriptions, attrs, asyncvars>>

\* remove ended leaving u
RemoveOp(e, u) ==
    /\ last' = [Blank EXCEPT !.op = "remove", !.ext = e, !.exc = u.exc, !.calls = u.calls,
                             !.logged = u.logged, !.registry = u.registry]
    /\ UNCHANGED <<options, deferred, subscriptions, attrs, asyncvars>>

Remove(e, done) ==
    /\ RegistryOp(remove(lookup, e, done).lookup)
    /\ RemoveOp(e, remove(lookup, e, done))

Clear(beh) ==
    /\ RegistryOp(clear(lookup, beh).lookup)
    /\ DispatchOp("clear", "", beh, clear(lookup, beh))

\* trigger awaited to its end by its caller
Trigger(name, beh) ==
    /\ DispatchOp("trigger", "", beh, trigger(lookup, Event(name, {}), beh))
    /\ UNCHANGED extvars

TriggerSync(name, beh) ==
    /\ DispatchOp("trigger_sync", "", beh, trigger_sync(lookup, Event(name, {}), beh))
    /\ UNCHANGED extvars

\* view = options.<prefix>; view.<attr> = v.  last.kw holds the qualified name and v
NamespaceSet(prefix, attr, v) ==
    /\ prefix \notin DOMAIN options
    /\ namespace(options, prefix) # {}
    /\ attrs' = namespace_setattr(attrs, prefix, attr, v)
    /\ last' = [Blank EXCEPT !.op = "namespace_setattr",
                             !.kw = <<[name |-> qualified(prefix, attr), value |-> v]>>]
    /\ UNCHANGED <<options, deferred, subscriptions, extvars, asyncvars>>

\* self._options[n].reset(); last.kw holds the name and the default of the option
Reset(n) ==
    /\ n \in DOMAIN options
    /\ options' = [options EXCEPT ![n] = reset(@)]
    /\ last' = [Blank EXCEPT !.op = "reset",
                             !.kw = <<[name |-> n, value |-> options[n].default]>>]
    /\ UNCHANGED <<deferred, subscriptions, attrs, extvars, asyncvars>>

\* asyncio.create_task(m.trigger(ev)): the coroutine runs up to its first suspension
AsyncTrigger(ev, susp) ==
    /\ Len(tasks) < MaxTasks
    /\ tasks' = Append(tasks, started(lookup, Len(tasks) + 1, ev, susp).task)
    /\ history' = history \o started(lookup, Len(tasks) + 1, ev, susp).invoked
    /\ last' = [Blank EXCEPT !.op = "trigger_task"]
    /\ UNCHANGED <<options, deferred, subscriptions, attrs, extvars>>

\* the event loop resumes the suspended coroutine t, which runs up to its next suspension
AsyncResume(t, susp) ==
    /\ t \in DOMAIN tasks
    /\ tasks[t].state = "awaiting"
    /\ tasks' = [tasks EXCEPT ![t] = resumed(tasks[t], lookup, t, susp).task]
    /\ history' = history \o resumed(tasks[t], lookup, t, susp).invoked
    /\ last' = [Blank EXCEPT !.op = "resume_task", !.exc = tasks'[t].state]
    /\ UNCHANGED <<options, deferred, subscriptions, attrs, extvars>>

\* await m.register(e) of an extension without hooks, run while coroutines are suspended
AsyncRegister(e, load, beh) ==
    /\ e \notin seen
    /\ Unchanged(tasks, lookup)
    /\ RegistryOp(register(options, deferred, lookup, e, load, "absent", beh, beh).lookup)
    /\ last' = [Blank EXCEPT !.op = "register_task", !.ext = e]
    /\ UNCHANGED <<options, deferred, subscriptions, attrs, asyncvars>>

\* await m.remove(e), run while coroutines are suspended
AsyncRemove(e) ==
    /\ e \in Range(lookup)
    /\ Unchanged(tasks, lookup)
    /\ RegistryOp(remove(lookup, e, "ok").lookup)
    /\ history' = history \o done_invoked(<<e>>)
    /\ last' = [Blank EXCEPT !.op = "remove_task", !.ext = e]
    /\ UNCHANGED <<options, deferred, subscriptions, attrs, tasks>>

\* await m.clear(), run while coroutines are suspended
AsyncClear(beh) ==
    /\ RegistryOp(clear(lookup, beh).lookup)
    /\ tasks' = unbound(tasks, lookup)
    /\ history' = history \o done_invoked(lookup)
    /\ last' = [Blank EXCEPT !.op = "clear_task"]
    /\ UNCHANGED <<options, deferred, subscriptions, attrs>>

(***************************************************************************)
(* Inputs                                                                  *)
(***************************************************************************)
\* keyword arguments: up to MaxArgs pairs with distinct names, in call order
KwArgs(names, values) ==
    LET Pair == [name : names, value : values]
        Seqs == UNION {[1..k -> Pair] : k \in 0..MaxArgs}
    IN  {s \in Seqs : \A i, j \in DOMAIN s : i # j => s[i].name # s[j].name}

(***************************************************************************)
(* Spec: the option manager alone, before any extension is registered      *)
(***************************************************************************)
\* names add_option registers, and names update is called with
OptNames == {"p.a", "p.b"}
KwNames == OptNames \cup {"q"}
TypeSpecs == {"int", "str"}
Values == {IntV(0), IntV(1), StrV("a")}
KwInputs == KwArgs(KwNames, Values)

\* no registered extension: no handler behaviour is consulted
NoBeh == << >>

DoAddOption == \E n \in OptNames, t \in TypeSpecs, d \in Values : AddOption(n, t, d, NoBeh)
DoUpdate == \E kw \in KwInputs : Update(kw, NoBeh, NoBeh)
DoUpdateKnown == \E kw \in KwInputs : UpdateKnown(kw, NoBeh, NoBeh)

Next == DoAddOption \/ DoUpdate \/ DoUpdateKnown

Spec == Init /\ [][Next]_vars

(***************************************************************************)
(* SpecDispatch: three extensions that declare no option, registered,      *)
(* removed and sent events; a handler returns, raises an unrelated         *)
(* exception, ExtensionHalt or OptionError                                 *)
(***************************************************************************)
Exts == {"e1", "e2", "e3"}
HandlerOutcomes == {"ok", "Exception", "ExtensionHalt", "OptionError"}
Behaviours == [Exts -> HandlerOutcomes]
AllOk == [e \in Exts |-> "ok"]
NoLoad == [out |-> "absent", decls |-> <<>>]

DRegister == \E e \in Exts : Register(e, NoLoad, "ok", AllOk, AllOk)
DRemove == \E e \in Exts : Remove(e, "ok")
DClear == Clear(AllOk)
DTrigger == \E beh \in Behaviours : Trigger("ready", beh)
DTriggerSync == \E beh \in Behaviours : TriggerSync("ready", beh)

NextDispatch == DRegister \/ DRemove \/ DClear \/ DTrigger \/ DTriggerSync

SpecDispatch == Init /\ [][NextDispatch]_vars

(***************************************************************************)
(* SpecConfigure: two int options and two extensions whose configure       *)
(* handlers return, raise an unrelated exception or raise OptionError,     *)
(* when options.changed is sent and when it is sent again by rollback      *)
(***************************************************************************)
CfgExts == {"e1", "e2"}
CfgValues == {IntV(0), IntV(1)}
CfgKwInputs == KwArgs(OptNames, CfgValues)
CfgOutcomes == {"ok", "Exception", "OptionError"}

\* the behaviour of the handlers at the first notification and at the one rollback sends:
\* the same again, or every handler accepting the restored options
CfgBehaviours ==
    {<<b, b>> : b \in [CfgExts -> CfgOutcomes]}
    \cup {<<b, AllOk>> : b \in {c \in [CfgExts -> CfgOutcomes] :
                                  \E e \in CfgExts : c[e] = "OptionError"}}

CAddOption == \E n \in OptNames, bb \in CfgBehaviours : AddOption(n, "int", IntV(0), bb[1])
CUpdateKnown == \E kw \in CfgKwInputs, bb \in CfgBehaviours : UpdateKnown(kw, bb[1], bb[2])
CRegister == \E e \in CfgExts : Register(e, NoLoad, "ok", AllOk, AllOk)

NextConfigure == CAddOption \/ CUpdateKnown \/ CRegister

SpecConfigure == Init /\ [][NextConfigure]_vars

(***************************************************************************)
(* SpecDeferred: values are deferred by set(defer=True) and by             *)
(* update_deferred, options are registered by add_option and by the load   *)
(* hook of an extension, and the queue is processed by process_deferred    *)
(* and by register                                                         *)
(***************************************************************************)
DefExt == "e1"
DefBehaviours == {[e \in Exts |-> IF e = DefExt THEN o ELSE "ok"] : o \in {"ok", "OptionError"}}

\* the option of each type as it is declared
Declared(n, t) ==
    [name |-> n, typespec |-> t, default |-> IF t = "int" THEN IntV(0) ELSE StrV("a")]
Declarations == {Declared(n, t) : n \in OptNames, t \in TypeSpecs}

\* the set specifications "name=1" and "name=a"
Token(n, v) == [name |-> n, eq |-> TRUE, value |-> v]
Tokens == {Token(n, v) : n \in OptNames, v \in {"1", "a"}}

\* the arguments of one set call: up to MaxArgs specifications, at most MaxVals
\* values for one name
SpecInputs ==
    {sp \in UNION {[1..k -> Tokens] : k \in 1..MaxArgs} :
        \A n \in OptNames : Cardinality({i \in DOMAIN sp : sp[i].name = n}) <= MaxVals}

DefKwInputs == KwArgs(OptNames, {IntV(1)})

\* the options a load hook declares, each name at most once
LoadDeclarations == {Declared("p.a", "int"), Declared("p.b", "str")}
LoadInputs ==
    {dc \in UNION {[1..k -> LoadDeclarations] : k \in 0..MaxArgs} :
        \A i, j \in DOMAIN dc : dc[i].name = dc[j].name => i = j}

FSet == \E sp \in SpecInputs : Set(sp, TRUE, AllOk, AllOk)
FUpdateDeferred == \E kw \in DefKwInputs : UpdateDeferred(kw, AllOk, AllOk)
FAddOption == \E d \in Declarations : AddOption(d.name, d.typespec, d.default, AllOk)
FProcessDeferred == \E b \in DefBehaviours : ProcessDeferred(b, AllOk)
FRegister ==
    \E dc \in LoadInputs, ready \in {"ok", "absent"} :
        Register(DefExt, [out |-> "ok", decls |-> dc], ready, AllOk, AllOk)

NextDeferred == FSet \/ FUpdateDeferred \/ FAddOption \/ FProcessDeferred \/ FRegister

SpecDeferred == Init /\ [][NextDeferred]_vars

(***************************************************************************)
(* SpecSubscribe: two int options, callbacks subscribed to literal names   *)
(* and to wildcards, and updates of the options                            *)
(***************************************************************************)
Callbacks == {"cb1", "cb2"}
Patterns == {Wildcard("p."), Wildcard("q."), Literal("p.a"), Literal("q")}
PatternInputs == UNION {[1..k -> Patterns] : k \in 0..MaxArgs}

SAddOption == \E n \in OptNames : AddOption(n, "int", IntV(0), NoBeh)
SSubscribe == \E cb \in Callbacks, names \in PatternInputs : Subscribe(cb, names)
SUpdate == \E kw \in CfgKwInputs : Update(kw, NoBeh, NoBeh)

NextSubscribe == SAddOption \/ SSubscribe \/ SUpdate

SpecSubscribe == Init /\ [][NextSubscribe]_vars

(***************************************************************************)
(* SpecSetBool: set specifications for the boolean options p.a and p.b,    *)
(* registered or not                                                       *)
(***************************************************************************)
\* the set specification "name", without "="
NoValue(n) == [name |-> n, eq |-> FALSE, value |-> ""]

\* "p.a", "p.a=", "p.a=true", "p.a=false", "p.a=debug", "p.b", "p.b=debug"
BoolTokens ==
    {NoValue("p.a"), NoValue("p.b"), Token("p.b", "debug")}
    \cup {Token("p.a", v) : v \in {"", "true", "false", "debug"}}

BoolSpecInputs ==
    {sp \in UNION {[1..k -> BoolTokens] : k \in 1..MaxArgs} :
        \A n \in OptNames : Cardinality({i \in DOMAIN sp : sp[i].name = n}) <= MaxVals}

BAddOption ==
    \E n \in OptNames, b \in BOOLEAN : AddOption(n, "bool", BoolV(b), NoBeh)
BSet == \E sp \in BoolSpecInputs : Set(sp, FALSE, NoBeh, NoBeh)

NextSetBool == BAddOption \/ BSet

SpecSetBool == Init /\ [][NextSetBool]_vars

(***************************************************************************)
(* SpecLifecycle: three extensions registered, removed, cleared and sent   *)
(* events; a done handler returns, raises an unrelated exception,          *)
(* ExtensionHalt or OptionError; the attribute named like another event is *)
(* a handler that returns or raises OptionError, or is not callable        *)
(***************************************************************************)
\* what the attribute named like the event does when trigger reaches the extension
LifeOutcomes == {"ok", "OptionError", "noncallable"}
LifeBehaviours == [Exts -> LifeOutcomes]

LRegister == \E e \in Exts : Register(e, NoLoad, "ok", AllOk, AllOk)
LRemove == \E e \in Exts, done \in {"ok", "Exception"} : Remove(e, done)
LClear == \E beh \in Behaviours : Clear(beh)
LTrigger == \E beh \in LifeBehaviours : Trigger("ready", beh)
LTriggerSync == \E beh \in LifeBehaviours : TriggerSync("ready", beh)

NextLifecycle == LRegister \/ LRemove \/ LClear \/ LTrigger \/ LTriggerSync

SpecLifecycle == Init /\ [][NextLifecycle]_vars

(***************************************************************************)
(* SpecHandlers: the int option p.a and two extensions whose configure     *)
(* handlers return, register the option p.h when it is missing, or raise   *)
(* OptionError                                                             *)
(***************************************************************************)
DeclOutcomes == {"ok", "declares", "OptionError"}

\* the behaviour of the handlers at the first notification and at the one rollback sends:
\* the same again, or every handler returning
DeclBehaviours ==
    {<<b, b>> : b \in [CfgExts -> DeclOutcomes]}
    \cup {<<b, AllOk>> : b \in {c \in [CfgExts -> DeclOutcomes] :
                                  \E e \in CfgExts : c[e] = "OptionError"}}

HAddOption == \E bb \in DeclBehaviours : AddOption("p.a", "int", IntV(0), bb[1])
HUpdateKnown ==
    \E kw \in KwArgs({"p.a"}, CfgValues), bb \in DeclBehaviours : UpdateKnown(kw, bb[1], bb[2])
HRegister == \E e \in CfgExts : Register(e, NoLoad, "ok", AllOk, AllOk)

NextHandlers == HAddOption \/ HUpdateKnown \/ HRegister

SpecHandlers == Init /\ [][NextHandlers]_vars

(***************************************************************************)
(* SpecAwait: three extensions registered, removed and sent events; a      *)
(* handler is a plain function that returns or an async def function       *)
(***************************************************************************)
AwaitOutcomes == {"ok", "awaitable"}
AwaitBehaviours == [Exts -> AwaitOutcomes]

WRegister == \E e \in Exts : Register(e, NoLoad, "ok", AllOk, AllOk)
WRemove == \E e \in Exts, done \in AwaitOutcomes : Remove(e, done)
WTrigger == \E beh \in AwaitBehaviours : Trigger("ready", beh)
WTriggerSync == \E beh \in AwaitBehaviours : TriggerSync("ready", beh)

NextAwait == WRegister \/ WRemove \/ WTrigger \/ WTriggerSync

SpecAwait == Init /\ [][NextAwait]_vars

(***************************************************************************)
(* SpecAsync: two extensions with async handlers for the events a and b;   *)
(* trigger coroutines are started and suspend in the handlers they await,  *)
(* while extensions are registered and removed and the registry is cleared *)
(***************************************************************************)
AsyncExts == {"e1", "e2"}
AsyncEvents == {"a", "b"}
Suspensions == [AsyncExts -> BOOLEAN]

ITrigger == \E ev \in AsyncEvents, susp \in Suspensions : AsyncTrigger(ev, susp)
IResume == \E t \in 1..MaxTasks, susp \in Suspensions : AsyncResume(t, susp)
IRegister == \E e \in AsyncExts : AsyncRegister(e, NoLoad, AllOk)
IRemove == \E e \in AsyncExts : AsyncRemove(e)
IClear == AsyncClear(AllOk)

NextAsync == ITrigger \/ IResume \/ IRegister \/ IRemove \/ IClear

SpecAsync == Init /\ [][NextAsync]_vars

(***************************************************************************)
(* SpecNamespace: options of the namespace p registered, updated, assigned *)
(* through the namespace view and reset                                    *)
(***************************************************************************)
Attributes == {"a", "b"}

NAddOption == \E d \in Declarations : AddOption(d.name, d.typespec, d.default, NoBeh)
NUpdate == \E kw \in KwArgs({"p.a"}, Values) : Update(kw, NoBeh, NoBeh)
NNamespaceSet == \E attr \in Attributes, v \in Values : NamespaceSet("p", attr, v)
NReset == \E n \in OptNames : Reset(n)

NextNamespace == NAddOption \/ NUpdate \/ NNamespaceSet \/ NReset

SpecNamespace == Init /\ [][NextNamespace]_vars

(***************************************************************************)
(* Claims about the option manager alone (checked under Spec)              *)
(***************************************************************************)
\* value and is-set flag of option n are the same in both stores
SameValue(o1, o2, n) == o1[n].value = o2[n].value /\ o1[n].is_set = o2[n].is_set

\* C1: when update is called with two or more registered names and the value given
\* for one of them fails the type check of its option, the call fails and every
\* option named in the call keeps the value and the is-set flag it had before.
C1_TypeErrorRollsBackAll ==
    [][(/\ last'.op = "update"
        /\ Len(last'.kw) >= 2
        /\ KwNamesOf(last'.kw) \subseteq DOMAIN options
        /\ \E i \in DOMAIN last'.kw :
              ~assert_type(last'.kw[i].value, options[last'.kw[i].name].typespec))
       => (/\ last'.exc # "none"
           /\ \A n \in KwNamesOf(last'.kw) : SameValue(options', options, n))]_vars

\* C2: update called with at least one unregistered name raises OptionError and
\* leaves the value and the is-set flag of every registered option unchanged,
\* also when the call names registered options too.
C2_UnknownNameChangesNothing ==
    [][(/\ last'.op = "update"
        /\ ~(KwNamesOf(last'.kw) \subseteq DOMAIN options))
       => (/\ last'.exc = "OptionError"
           /\ DOMAIN options' = DOMAIN options
           /\ \A n \in DOMAIN options : SameValue(options', options, n))]_vars

\* C9: for every registered option not written since its registration, reading it
\* returns its default and is_set(name) is false.
C9_UnwrittenReadsDefaultAndIsNotSet ==
    \A n \in DOMAIN options :
        ~options[n].is_set =>
            /\ getattr(options, n) = default(options, n)
            /\ ~Truthy(is_set(options, n))

\* C10: after update(name=v) succeeds on a registered option whose default is d,
\* default(name) still returns d, reading the option returns v, and is_set(name)
\* returns true.
C10_UpdateKeepsDefaultSetsValueAndFlag ==
    [][(/\ last'.op = "update"
        /\ last'.exc = "none")
       => \A i \in DOMAIN last'.kw :
            LET n == last'.kw[i].name
            IN  /\ default(options', n) = default(options, n)
                /\ getattr(options', n) = last'.kw[i].value
                /\ Truthy(is_set(options', n))]_vars

\* C11: add_option called with a name that is already registered fails with an error
\* and leaves the existing option (type, default, current value, is-set flag) unchanged.
C11_RegisteredNameIsRejected ==
    [][(last'.op = "add_option" /\ last'.replaced)
       => /\ last'.exc # "none"
          /\ options'[last'.kw[1].name] = options[last'.kw[1].name]]_vars

TriggerOps == {"trigger", "trigger_sync"}

\* the extensions whose handler the last operation called, in call order
Called == [i \in DOMAIN last.calls |-> last.calls[i].ext]

\* the handler of extension e was called by the last operation and ended as out
CalledWith(e, out) == \E i \in DOMAIN last.calls : last.calls[i].ext = e /\ last.calls[i].out = out

\* extension e has a callable handler for the event of the last dispatch
HasHandler(e) == last.beh[e] \notin {"absent", "noncallable"}

\* the place of extension e in the history of registrations
Place(e) == CHOOSE i \in DOMAIN regorder : regorder[i] = e

\* C4: when trigger or trigger_sync dispatches an event to extensions registered in
\* the order e1, e2, e3 and the handler of e2 raises ExtensionHalt, the handlers of
\* e1 and e2 are invoked, the handler of e3 is not, and the call returns normally.
C4_HaltStopsDispatch ==
    (/\ last.op \in TriggerOps
     /\ Len(lookup) = 3
     /\ CalledWith(lookup[2], "ExtensionHalt"))
    => (/\ HasHandler(lookup[1]) => lookup[1] \in Range(Called)
        /\ lookup[3] \notin Range(Called)
        /\ last.exc = "none")

\* C5 as claimed: when a handler invoked by trigger or trigger_sync raises an
\* exception that is neither OptionError nor ExtensionHalt, the dispatch call does
\* not raise and the handlers of all extensions registered after it are invoked.
C5_ErrorNeverStopsDispatch ==
    last.op \in TriggerOps =>
        \A i \in DOMAIN lookup :
            CalledWith(lookup[i], "Exception") =>
                /\ last.exc = "none"
                /\ \A j \in DOMAIN lookup :
                      (j > i /\ HasHandler(lookup[j])) => lookup[j] \in Range(Called)

\* C5 as amended: when a handler invoked by trigger or trigger_sync raises an
\* exception that is neither OptionError nor ExtensionHalt, and no handler of an
\* extension registered after it raises OptionError, the dispatch call does not
\* raise and the handlers of all extensions registered after it are invoked.
C5_ErrorDoesNotStopDispatch ==
    last.op \in TriggerOps =>
        \A i \in DOMAIN lookup :
            (/\ CalledWith(lookup[i], "Exception")
             /\ \A j \in DOMAIN lookup : j > i => last.beh[lookup[j]] # "OptionError")
            => /\ last.exc = "none"
               /\ \A j \in DOMAIN lookup :
                     (j > i /\ HasHandler(lookup[j])) => lookup[j] \in Range(Called)

\* the second of three handlers raised an unrelated exception and the third was called
C5_Witness ==
    /\ last.op \in TriggerOps
    /\ Len(lookup) = 3
    /\ CalledWith(lookup[2], "Exception")
    /\ Called = lookup

\* C8: within one call of trigger or trigger_sync the handlers are invoked in the
\* order in which the extensions were registered, each extension at most once; an
\* extension that was removed and registered again comes after those that stayed.
C8_DispatchInRegistrationOrder ==
    last.op \in TriggerOps =>
        /\ Range(Called) \subseteq Range(regorder)
        /\ \A i, j \in DOMAIN Called : i < j => Place(Called[i]) < Place(Called[j])

\* three handlers were called, the last of an extension that was removed and
\* registered again while the other two stayed registered
C8_Witness ==
    /\ last.op \in TriggerOps
    /\ Len(Called) = 3
    /\ Called[3] \in rereg
    /\ Called[1] \notin rereg
    /\ Called[2] \notin rereg

(***************************************************************************)
(* Claims about configure handlers (checked under SpecConfigure)           *)
(***************************************************************************)
\* a configure handler called by the operation recorded in l raised OptionError
ConfigureRaised(l) ==
    \E i \in DOMAIN l.calls :
        l.calls[i].ev.name = "configure" /\ l.calls[i].out = "OptionError"

\* C3: if the configure handler of a registered extension raises OptionError while
\* update_known broadcasts its change notification, the error leaves the dispatcher,
\* the errored notification is sent, every option is restored to the value and the
\* is-set flag it had before the call, and OptionError is raised to the caller.
C3_HandlerOptionErrorRollsBack ==
    [][(last'.op = "update_known" /\ ConfigureRaised(last'))
       => (/\ last'.exc = "OptionError"
           /\ last'.errored = 1
           /\ DOMAIN options' = DOMAIN options
           /\ \A n \in DOMAIN options : SameValue(options', options, n))]_vars

\* update_known of two options, one of them set before, met an OptionError of the
\* second extension's configure handler
C3_Witness ==
    /\ last.op = "update_known"
    /\ Len(last.kw) = 2
    /\ Len(lookup) = 2
    /\ CalledWith(lookup[2], "OptionError")
    /\ last.kw[1].value = IntV(1)
    /\ \E n \in DOMAIN options : options[n].is_set

\* the registered names among the keyword arguments kw
KnownNames(kw, opts) == KwNamesOf(kw) \cap DOMAIN opts

\* C15: a successful update_known whose known names form the non-empty set K sends one
\* change notification, after the values of K are assigned, which dispatches exactly one
\* configure event with updated = K to every registered extension, in registry order,
\* before update_known returns; when no supplied name is registered no configure event
\* is dispatched and all supplied pairs are returned as unknown without raising.
C15_OneConfigurePerBatch ==
    [][last'.op = "update_known"
       => /\ (last'.exc = "none" /\ KnownNames(last'.kw, options) # {})
             => /\ \A i \in DOMAIN last'.kw :
                       last'.kw[i].name \in DOMAIN options
                       => /\ options'[last'.kw[i].name].value = last'.kw[i].value
                          /\ options'[last'.kw[i].name].is_set
                /\ last'.sent = <<[updated |-> KnownNames(last'.kw, options),
                                   options |-> options']>>
                /\ Len(last'.calls) = Len(lookup)
                /\ \A i \in DOMAIN lookup :
                       /\ last'.calls[i].ext = lookup[i]
                       /\ last'.calls[i].ev
                            = Event("configure", KnownNames(last'.kw, options))
          /\ KnownNames(last'.kw, options) = {}
             => /\ last'.exc = "none"
                /\ last'.unknown = last'.kw
                /\ last'.sent = << >>
                /\ last'.calls = << >>
                /\ options' = options]_vars

\* update_known of the two registered options returned after the configure handlers of
\* two extensions were called, the first of which raised an unrelated exception
C15_Witness ==
    /\ last.op = "update_known"
    /\ last.exc = "none"
    /\ Len(last.kw) = 2
    /\ Len(lookup) = 2
    /\ Len(last.calls) = 2
    /\ last.calls[1].out = "Exception"
    /\ last.sent[1].updated = {"p.a", "p.b"}

(***************************************************************************)
(* Claims about the deferred queue (checked under SpecDeferred)            *)
(***************************************************************************)
\* the queue entries whose option is not registered in opts
Unsatisfiable(dfr, opts) == SelectSeq(dfr, LAMBDA it : it.name \notin DOMAIN opts)

\* process_deferred took every registered name out of the queue with its deferred value
\* written, and left the other entries as they were
AppliedQueue ==
    /\ \A i \in DOMAIN deferred :
           deferred[i].name \in DOMAIN options
           => /\ options'[deferred[i].name].value
                    = resolve(deferred[i].entry, options[deferred[i].name].typespec).value
              /\ deferred[i].name \notin Names(deferred')
    /\ deferred' = Unsatisfiable(deferred, options)

\* a registered option with no entry in the queue gets none, and neither process_deferred
\* nor a registration that does not declare it again writes it
NeverAppliedAgain ==
    \A n \in DOMAIN options \ Names(deferred) :
        /\ n \notin Names(deferred')
        /\ last'.op = "process_deferred" => options'[n] = options[n]
        /\ (last'.op = "register" /\ n \notin KwNamesOf(last'.kw)) => options'[n] = options[n]

\* C6 as stated: once a value deferred for an unregistered option x is in the queue and x
\* is registered, process_deferred leaves x with the deferred value (parsed against the
\* type of x when it was a raw specification) and out of the queue, no later
\* process_deferred writes x again, and the entries of unregistered names stay unchanged.
C6_DeferredAppliedOnce ==
    [][/\ last'.op = "process_deferred" => AppliedQueue
       /\ NeverAppliedAgain]_vars

\* C6, for the calls of process_deferred that return: the same holds whenever
\* process_deferred returns without raising.
C6_DeferredAppliedOnceWhenProcessed ==
    [][/\ (last'.op = "process_deferred" /\ last'.exc = "none") => AppliedQueue
       /\ NeverAppliedAgain]_vars

\* process_deferred returned having parsed the raw specification "1" for the str option
\* p.a, while the entry of the unregistered p.b stays in the queue
C6_Witness ==
    /\ last.op = "process_deferred"
    /\ last.exc = "none"
    /\ last.kw = <<[name |-> "p.a", value |-> StrV("1")]>>
    /\ options["p.a"].value = StrV("1")
    /\ "p.b" \notin DOMAIN options
    /\ Names(deferred) = {"p.b"}

\* the positions of the calls of the handler called name in the record l
CallsOf(l, name) == {i \in DOMAIN l.calls : l.calls[i].ev.name = name}

\* C7: register calls the load hook of the extension first, then applies the deferred
\* entries that have become satisfiable, and only then calls the ready hook, once; when
\* the ready hook runs every option declared by the load hook is registered and holds
\* its deferred value if one was queued.
C7_LoadThenDeferredThenReady ==
    [][(last'.op = "register" /\ CallsOf(last', "ready") # {})
       => /\ CallsOf(last', "load") = {1}
          /\ CallsOf(last', "ready") = {Len(last'.calls)}
          /\ \A i \in {1, Len(last'.calls)} : last'.calls[i].ext = last'.ext
          /\ \A i \in DOMAIN last'.kw :
                 /\ last'.kw[i].name \in DOMAIN options'
                 /\ options'[last'.kw[i].name].typespec = last'.kw[i].typespec
                 /\ \A j \in DOMAIN deferred :
                        deferred[j].name = last'.kw[i].name
                        => /\ options'[deferred[j].name].value
                                 = resolve(deferred[j].entry, last'.kw[i].typespec).value
                           /\ deferred[j].name \notin Names(deferred')
                           /\ \E c \in CallsOf(last', "configure") :
                                  /\ last'.calls[c].ext = last'.ext
                                  /\ deferred[j].name \in last'.calls[c].ev.updated
          /\ deferred' = Unsatisfiable(deferred, options')]_vars

\* a registration whose load hook declared p.a and p.b, both with a deferred raw
\* specification, ending with the ready hook
C7_Witness ==
    /\ last.op = "register"
    /\ last.exc = "none"
    /\ Len(last.kw) = 2
    /\ Len(last.calls) = 3
    /\ last.calls[3].ev.name = "ready"
    /\ last.calls[2].ev.updated = {"p.a", "p.b"}
    /\ options["p.a"].value = IntV(1)
    /\ options["p.b"].value = StrV("1")
    /\ deferred = << >>

\* C17: register of an extension whose name is already in the registry raises
\* ExtManagerError without calling any hook of the extension, and leaves the registry,
\* the registered options and the deferred queue unchanged.
C17_DuplicateRegisterRejected ==
    [][(last'.op = "register" /\ last'.ext \in Range(lookup))
       => /\ last'.exc = "ExtManagerError"
          /\ last'.calls = << >>
          /\ lookup' = lookup
          /\ options' = options
          /\ deferred' = deferred]_vars

\* a second registration of e1, whose load hook would declare p.a and p.b, was rejected
\* while a value for the unregistered p.b is deferred
C17_Witness ==
    /\ last.op = "register"
    /\ last.ext = "e1"
    /\ last.exc = "ExtManagerError"
    /\ Len(last.kw) = 2
    /\ lookup = <<"e1">>
    /\ "p.b" \notin DOMAIN options
    /\ "p.b" \in Names(deferred)

(***************************************************************************)
(* Claims about subscriptions (checked under SpecSubscribe)                *)
(***************************************************************************)
\* the registered options an argument of subscribe names
Named(p, opts) ==
    IF p.wild THEN {o \in DOMAIN opts : startswith(o, p.stem)} ELSE {p.stem} \cap DOMAIN opts

\* C13: a callback subscribed with subscribe(cb, 'p.*') while p.a and p.b are registered
\* is invoked, with the set of changed names, whenever p.a or p.b is later changed
\* through update.
C13_SubscriberIsNotified ==
    [][(/\ last'.op = "update"
        /\ last'.exc = "none"
        /\ last'.kw # <<>>)
       => \A i \in DOMAIN subscriptions :
              subscriptions[i].options \cap KwNamesOf(last'.kw) # {}
              => \E c \in DOMAIN last'.calls :
                     /\ last'.calls[c].ext = subscriptions[i].cb
                     /\ last'.calls[c].ev.updated = KwNamesOf(last'.kw)]_vars

\* C14: subscribe raises OptionError when one of its names is a wildcard matching no
\* registered option or a literal name that is not registered, and then adds no
\* subscription, also when other names of the call were valid; otherwise it adds one
\* subscription to the options named.
C14_FailingSubscribeAddsNothing ==
    [][last'.op = "subscribe"
       => IF \E i \in DOMAIN last'.specs : Named(last'.specs[i], options) = {}
          THEN last'.exc = "OptionError" /\ subscriptions' = subscriptions
          ELSE /\ last'.exc = "none"
               /\ subscriptions'
                    = Append(subscriptions,
                             [cb |-> last'.ext,
                              options |-> UNION {Named(last'.specs[i], options) :
                                                   i \in DOMAIN last'.specs}])]_vars

\* after one subscription was made, a subscribe with the valid name p.a and then a
\* wildcard matching nothing failed
C14_Witness ==
    /\ last.op = "subscribe"
    /\ last.exc = "OptionError"
    /\ last.specs = <<Literal("p.a"), Wildcard("q.")>>
    /\ "p.a" \in DOMAIN options
    /\ Len(subscriptions) = 1

(***************************************************************************)
(* Claims about set on boolean options (checked under SpecSetBool)         *)
(***************************************************************************)
SetOps == {"set", "set_defer"}

\* the positions of the specifications for the name n among specs
SpecsFor(specs, n) == {i \in DOMAIN specs : specs[i].name = n}

\* the registered boolean option the i-th specification of the last set call names
IsBoolSpec(i) ==
    /\ last'.specs[i].name \in DOMAIN options
    /\ options[last'.specs[i].name].typespec = "bool"

\* a set call that returned has set the option of the i-th specification, the only one
\* for its name, to b
SetsTo(i, b) ==
    (last'.exc = "none" /\ SpecsFor(last'.specs, last'.specs[i].name) = {i})
    => /\ options'[last'.specs[i].name].value = BoolV(b)
       /\ options'[last'.specs[i].name].is_set

\* a set call whose only specification is the valid i-th one returns
Returns(i) == Len(last'.specs) = 1 => last'.exc = "none"

\* the set call raised OptionError and changed nothing
Rejected ==
    /\ last'.exc = "OptionError"
    /\ options' = options
    /\ deferred' = deferred

C18_DoneRunsBeforeRemoval ==
    [][(last'.op = "remove" /\ last'.ext \in Range(lookup) /\ last'.exc = "none")
       => /\ Len(last'.calls) = 1
          /\ last'.calls[1].ext = last'.ext
          /\ last'.calls[1].ev.name = "done"
          /\ last'.ext \in Range(last'.registry)
          /\ last'.ext \notin Range(lookup')]_vars

\* the extensions of the registry lk whose attribute for the event is a handler
Callable(lk, beh) == SelectSeq(lk, LAMBDA e : beh[e] \notin {"absent", "noncallable"})

\* clear called the done handler of every extension once, in registration order, and
\* emptied the registry
ClearedAll ==
    /\ last'.exc = "none"
    /\ lookup' = << >>
    /\ [i \in DOMAIN last'.calls |-> last'.calls[i].ext] = Callable(regorder, last'.beh)
    /\ \A i \in DOMAIN last'.calls : last'.calls[i].ev.name = "done"

C20_NotCallableIsRaised ==
    [][(/\ last'.op \in TriggerOps
        /\ \E e \in Range(lookup) : last'.beh[e] = "noncallable"
        /\ \A e \in Range(lookup) : last'.beh[e] # "OptionError")
       => last'.exc = "ExtManagerError"]_vars

(***************************************************************************)
(* Claims about the namespace view and reset (checked under SpecNamespace) *)
(***************************************************************************)
\* C21: assigning attribute a of the namespace view with prefix p writes option p.a of
\* the manager: when the value passes the type check of the option, the option store
\* holds the assigned value afterwards and the option is marked set; when it does not,
\* the assignment raises TypeError and the option is left as it was.
C21_NamespaceWriteReachesStore ==
    [][(last'.op = "namespace_setattr" /\ last'.kw[1].name \in DOMAIN options)
        => IF assert_type(last'.kw[1].value, options[last'.kw[1].name].typespec)
           THEN /\ last'.kw[1].name \in DOMAIN options'
                /\ options'[last'.kw[1].name].value = last'.kw[1].value
                /\ options'[last'.kw[1].name].is_set
           ELSE /\ last'.exc = "TypeError"
                /\ options' = options]_vars

\* C27: reset returns the current value of the option to its default and leaves the
\* is-set flag false.
C27_ResetClearsValueAndFlag ==
    [][last'.op = "reset"
        => /\ options'[last'.kw[1].name].value = options[last'.kw[1].name].default
           /\ ~options'[last'.kw[1].name].is_set]_vars

(***************************************************************************)
(* Claims about awaitable results of handlers (checked under SpecAwait)    *)
(***************************************************************************)
\* C22: in trigger and in trigger_sync, when the handler of an extension returns an
\* awaitable, that computation has run to completion before the handler of the next
\* extension is invoked (and before the dispatch ends).
C22_AwaitableRunsBeforeNextHandler ==
    [][last'.op \in TriggerOps
        => \A i \in DOMAIN last'.calls :
              last'.calls[i].out = "awaitable" => last'.calls[i].ran]_vars

(***************************************************************************)
(* Claims about concurrent dispatches (checked under SpecAsync)            *)
(***************************************************************************)
\* the places in history where coroutine t invoked a handler of extension e
InvokedAt(t, e) == {k \in DOMAIN history : history[k].task = t /\ history[k].ext = e}

\* C23: if the dispatch of event A begins before the dispatch of event B, every
\* extension whose handlers both dispatches invoke has its handler for A invoked before
\* its handler for B, however the trigger coroutines interleave at their await points.
C23_EarlierDispatchReachesEachExtensionFirst ==
    \A i, j \in DOMAIN tasks :
        i < j => \A e \in AsyncExts :
                    \A k \in InvokedAt(i, e), l \in InvokedAt(j, e) : k < l

\* C28: once the done handler of an extension has been invoked by remove or by clear,
\* no handler of that extension is invoked afterwards, however trigger, remove and clear
\* interleave at their await points.
C28_NoHandlerAfterDone ==
    \A k, l \in DOMAIN history :
        (k < l /\ history[k].ev = "done") => history[l].ext # history[k].ext

(***************************************************************************)
(* Claims about the order of the notifications of one extension (checked   *)
(* under SpecDeferred)                                                     *)
(***************************************************************************)
\* the call c of the step is a call of the handler named name of extension e
IsCall(l, c, e, name) == l.calls[c].ext = e /\ l.calls[c].ev.name = name

C29_FailedRegisterLeavesNoEntry ==
    [][(last'.op = "register" /\ last'.exc # "none" /\ last'.ext \notin Range(lookup))
        => last'.ext \notin Range(lookup')]_vars

(***************************************************************************)
(* Claims about the option store in every state (checked under             *)
(* SpecDeferred)                                                           *)
(***************************************************************************)
\* a value is of the type an option is declared with: an int option holds an int (bool
\* is an int), a float option a float or an int, an optional one the wrapped type or None
Satisfies(v, t) ==
    CASE t = "int" -> v.k \in {"int", "bool"}
      [] t = "str" -> v.k = "str"
      [] t = "bool" -> v.k = "bool"
      [] t = "float" -> v.k \in {"float", "int", "bool"}
      [] t = "optint" -> v.k \in {"int", "bool", "none"}
      [] t = "optstr" -> v.k \in {"str", "none"}
      [] t = "any" -> TRUE
      [] OTHER -> FALSE

\* C25: in every reachable state the current value of each registered option satisfies
\* the typespec of the option, whatever add_option, update, update_deferred, set,
\* process_deferred, failed updates and rollbacks led to the state.
C25_ValueSatisfiesTypespec ==
    \A n \in DOMAIN options : Satisfies(options[n].value, options[n].typespec)

\* a batch that wrote p.a and then failed the type check of a later name
C25_Witness ==
    /\ last.op = "update_deferred"
    /\ last.exc = "TypeError"
    /\ "p.a" \in DOMAIN options
    /\ options["p.a"].is_set
    /\ options["p.a"].value # options["p.a"].default

(***************************************************************************)
(* Claims about registrations made by handlers (checked under SpecHandlers)*)
(***************************************************************************)
\* C26: once add_option has registered a name, the name stays registered in every later
\* state: the names registered before an operation, and the names registered when one of
\* its options.changed notifications was sent (a handler may have registered one by
\* then), are registered after the operation, whether it failed and rolled back or not.
C26_RegisteredNameStays ==
    [][/\ DOMAIN options \subseteq DOMAIN options'
       /\ \A i \in DOMAIN last'.sent :
             DOMAIN last'.sent[i].options \subseteq DOMAIN options']_vars

====
